---- MODULE Spec2Model ----
(***************************************************************************)
(* Tumbling windows over a timely-dataflow stream.                         *)
(*                                                                         *)
(* The repository holds two generations of the same design:                *)
(*   - src/generic.rs + src/windows/tumbling.rs: the policy is asked       *)
(*     try_emit(watermark) and closes a boundary once the input frontier   *)
(*     has passed it; the operator driver has no drain.                    *)
(*   - src/window.rs: the policy closes a boundary once the greatest       *)
(*     timestamp given so far has reached it, has a drain(), and the       *)
(*     driver takes a drain_when_finished flag.                            *)
(* Both are modelled; the variable `variant` says which one an instance    *)
(* is.  Timestamps are u64 (the type the tests use), so a frontier is an   *)
(* antichain of at most one element.  Option values are sequences of       *)
(* length at most one.                                                     *)
(***************************************************************************)
EXTENDS Naturals, Integers, Sequences, FiniteSets, TLC

\* ------------------------------------------------------------------------
\* Bounds of the model
MaxTime == 3        \* greatest timestamp of a record or of the frontier
MaxSize == 2        \* greatest window size
MaxInit == 1        \* greatest configured initial time
MaxCalls == 3       \* number of give calls / batches sent by upstream
MaxBatch == 1       \* greatest length of one given vector

\* Greatest representable timestamp (u64::MAX in the code, the integer
\* width of the model checker here): PathSummary::results_in is checked_add.
TimestampMax == 2147483647

Data == {1, 2}
Times == 0..MaxTime
Sizes == 0..MaxSize

\* ------------------------------------------------------------------------
\* Option
None == <<>>
Some(x) == <<x>>
is_some(o) == o # <<>>
is_none(o) == o = <<>>
unwrap(o) == o[1]

\* Vectors of data of length 0..n
RECURSIVE Vecs(_)
Vecs(n) ==
    IF n = 0 THEN {<<>>}
    ELSE LET shorter == Vecs(n - 1)
         IN shorter \cup {Append(v, d) : v \in {w \in shorter : Len(w) = n - 1}, d \in Data}

DataVecs == Vecs(MaxBatch)
NonEmptyVecs == DataVecs \ {<<>>}

\* Ascending sequence of a finite set of timestamps (Vec::sort)
RECURSIVE sort(_)
sort(S) ==
    IF S = {} THEN <<>>
    ELSE LET m == CHOOSE x \in S : \A y \in S : x <= y
         IN <<m>> \o sort(S \ {m})

\* All enumerations of a finite set (the iteration orders of a HashMap)
RECURSIVE Orders(_)
Orders(S) ==
    IF S = {} THEN {<<>>}
    ELSE UNION {{<<x>> \o o : o \in Orders(S \ {x})} : x \in S}

\* ------------------------------------------------------------------------
\* timely: PathSummary::results_in for u64 (checked addition)
results_in_same(s, t) == Some(t)

results_in_saturating(s, t) == IF t > TimestampMax - s THEN Some(TimestampMax) ELSE Some(t + s)

results_in(s, t) == IF t > TimestampMax - s THEN None ELSE Some(t + s)

\* timely: MutableAntichain::less_equal / less_than, behind Watermark
less_equal_strict(fr, t) == \E f \in fr : f < t

less_equal(fr, t) == \E f \in fr : f <= t

less_than(fr, t) == \E f \in fr : f < t

\* ------------------------------------------------------------------------
\* WindowBuffer for HashMap<T, Vec<D>>
EmptyBuffer == [x \in {} |-> <<>>]

timestamps(buf) == DOMAIN buf

store(buf, time, data) ==
    [x \in DOMAIN buf \cup {time} |->
        IF x = time
        THEN (IF time \in DOMAIN buf THEN buf[time] ELSE <<>>) \o data
        ELSE buf[x]]

remove_keep(buf, time) == buf

remove(buf, time) == [x \in DOMAIN buf \ {time} |-> buf[x]]

\* .into_iter().map(|v| (time.clone(), v))
tag(time, vec) == [i \in 1..Len(vec) |-> <<time, vec[i]>>]

\* the loop `for time in ready_times { data.extend(buffer.remove(&time)...) }`
RECURSIVE extend_all(_, _)
extend_all(buf, times) ==
    IF times = <<>> THEN <<>>
    ELSE tag(Head(times), buf[Head(times)]) \o extend_all(buf, Tail(times))

RECURSIVE remove_all(_, _)
remove_all(buf, times) ==
    IF times = <<>> THEN buf
    ELSE remove_all(remove(buf, Head(times)), Tail(times))

\* reserved.sort_by(|(t1, _), (t2, _)| t1.cmp(&t2)): a stable sort
RECURSIVE insert_stable(_, _)
insert_stable(sorted, rec) ==
    IF sorted = <<>> THEN <<rec>>
    ELSE IF sorted[Len(sorted)][1] <= rec[1] THEN Append(sorted, rec)
    ELSE Append(insert_stable(SubSeq(sorted, 1, Len(sorted) - 1), rec), sorted[Len(sorted)])

RECURSIVE sort_by(_)
sort_by(recs) ==
    IF recs = <<>> THEN <<>>
    ELSE insert_stable(sort_by(SubSeq(recs, 1, Len(recs) - 1)), recs[Len(recs)])

\* ------------------------------------------------------------------------
\* State
VARIABLES
    variant,              \* "watermark": generic.rs + windows/tumbling.rs; "max_time": window.rs
    size,                 \* TumblingWindow.size
    init_time,            \* the init_time argument of TumblingWindow::new
    emit_time,            \* TumblingWindow.emit_time: Option<T>
    max_time,             \* TumblingWindow.max_time: Option<T> (window.rs only)
    buffer,               \* TumblingWindow.buffer: timestamp -> Vec<D>
    drain_when_finished,  \* argument of WindowOp::window (window.rs only)
    frontier,             \* the input frontier: an antichain of u64
    inq,                  \* record batches sent by upstream, not yet pulled by the operator
    cap,                  \* the retained capability: Option<time>
    stash,                \* output time -> Vec<(T, D)>
    notificator,          \* FrontierNotificator: the pending notify_at times
    sent,                 \* what output.session(&time).give(data) has sent: <<time, data>>
    panicked,             \* an unwrap() failed: the operator is aborted
    given,                \* history: timestamp -> the data handed to give_vec, in order
    op,                   \* history: the last operation
    ret,                  \* history: what the last try_emit / drain returned
    emitted,              \* history: timestamp -> the data try_emit and drain have returned, in order
    closed,               \* history: the boundary the last successful try_emit returned
    t0,                   \* history: the initial time: configured, or of the first record given
    in_order,             \* history: so far every give came before the first frontier
                          \* advance, the frontier advanced one step at a time and
                          \* every advance was followed by a try_emit
    calls                 \* history: number of give calls / upstream batches

vars == <<variant, size, init_time, emit_time, max_time, buffer, drain_when_finished,
          frontier, inq, cap, stash, notificator, sent, panicked, given, op, ret,
          emitted, closed, t0, in_order, calls>>

policy_vars == <<emit_time, max_time, buffer>>
config_vars == <<variant, size, init_time, drain_when_finished>>
driver_vars == <<inq, cap, stash, notificator, sent>>

\* The TumblingWindow struct as one value
self == [size |-> size, emit_time |-> emit_time, max_time |-> max_time,
         buffer |-> buffer, panic |-> FALSE]

\* ------------------------------------------------------------------------
\* windows/tumbling.rs: the watermark policy

\* TumblingWindow::new_with_buffer: the window keeps the buffer it is handed
new_with_buffer(sz, init, buf) ==
    LET e == IF is_some(init) THEN results_in(sz, unwrap(init)) ELSE None
    IN [size |-> sz, emit_time |-> e, max_time |-> None, buffer |-> buf,
        panic |-> is_some(init) /\ is_none(e)]

\* TumblingWindow::new: new_with_buffer(size, init_time, HashMap::default())
\* (window.rs: the same body with buffer: Default::default(), max_time: None)
new(sz, init) == new_with_buffer(sz, init, EmptyBuffer)

on_new_data(w, time) ==
    IF is_none(w.emit_time)
    THEN LET e == results_in(w.size, time)
         IN IF is_none(e) THEN [w EXCEPT !.panic = TRUE] ELSE [w EXCEPT !.emit_time = e]
    ELSE w

\* the timestamps strictly below the boundary, sorted
ready_times_le(buf, e) == sort({t \in timestamps(buf) : t <= e})

ready_times(buf, e) == sort({t \in timestamps(buf) : t < e})

\* the part of try_emit after the readiness test, shared by both files
close_window_drop_late(w, e) ==
    LET times == ready_times(w.buffer, e)
        current == SelectSeq(times, LAMBDA t : t + w.size >= e)
        data == extend_all(w.buffer, current)
        rest == remove_all(w.buffer, times)
        next == results_in(w.size, e)
    IN IF is_none(next)
       THEN [w |-> [w EXCEPT !.buffer = rest, !.panic = TRUE], ret |-> None]
       ELSE [w |-> [w EXCEPT !.buffer = rest, !.emit_time = next], ret |-> Some(<<e, data>>)]

close_window(w, e) ==
    LET times == ready_times(w.buffer, e)
        data == extend_all(w.buffer, times)
        rest == remove_all(w.buffer, times)
        next == results_in(w.size, e)
    IN IF is_none(next)
       THEN [w |-> [w EXCEPT !.buffer = rest, !.panic = TRUE], ret |-> None]
       ELSE [w |-> [w EXCEPT !.buffer = rest, !.emit_time = next], ret |-> Some(<<e, data>>)]

\* `self.emit_time.take()?` empties the field; it is put back when the
\* boundary is not ready and set anew when the window is closed, so the
\* unwrap that fails on re-arming leaves it empty
try_emit(w, watermark) ==
    IF is_none(w.emit_time) THEN [w |-> w, ret |-> None]
    ELSE IF less_equal(watermark, unwrap(w.emit_time)) THEN [w |-> w, ret |-> None]
    ELSE LET r == close_window(w, unwrap(w.emit_time))
         IN IF r.w.panic THEN [w |-> [r.w EXCEPT !.emit_time = None], ret |-> None] ELSE r

\* ------------------------------------------------------------------------
\* window.rs: the max-observed-timestamp policy

on_new_data_last(w, time) ==
    LET w1 == on_new_data(w, time)
    IN IF w1.panic THEN w1 ELSE [w1 EXCEPT !.max_time = Some(time)]

on_new_data_max(w, time) ==
    LET w1 == on_new_data(w, time)
    IN IF w1.panic THEN w1
       ELSE IF is_none(w1.max_time) \/ unwrap(w1.max_time) < time
            THEN [w1 EXCEPT !.max_time = Some(time)]
            ELSE w1

try_emit_max(w) ==
    IF is_none(w.emit_time) THEN [w |-> w, ret |-> None]
    ELSE IF is_none(w.max_time) THEN [w |-> [w EXCEPT !.panic = TRUE], ret |-> None]
    ELSE IF unwrap(w.max_time) < unwrap(w.emit_time) THEN [w |-> w, ret |-> None]
    ELSE close_window(w, unwrap(w.emit_time))

\* drain: `order` is the order in which HashMap::drain yields the entries
drain_keep(w, order) ==
    IF is_none(w.emit_time) THEN [w |-> w, ret |-> None]
    ELSE LET reserved == extend_all(w.buffer, order)
         IN IF reserved = <<>> THEN [w |-> w, ret |-> None]
            ELSE [w |-> w, ret |-> Some(<<unwrap(w.emit_time), sort_by(reserved)>>)]

drain(w, order) ==
    IF is_none(w.emit_time) THEN [w |-> w, ret |-> None]
    ELSE LET reserved == extend_all(w.buffer, order)
             w1 == [w EXCEPT !.buffer = EmptyBuffer]
         IN IF reserved = <<>> THEN [w |-> w1, ret |-> None]
            ELSE [w |-> w1, ret |-> Some(<<unwrap(w.emit_time), sort_by(reserved)>>)]

\* ------------------------------------------------------------------------
\* Window::give_vec (both files): the hook, then the store
give_vec(w, time, data) ==
    LET w1 == IF variant = "watermark" THEN on_new_data(w, time) ELSE on_new_data_max(w, time)
    IN IF w1.panic THEN w1 ELSE [w1 EXCEPT !.buffer = store(@, time, data)]

\* ------------------------------------------------------------------------
\* Construction
Variants == {"watermark", "max_time"}

\* the state right after TumblingWindow::new and WindowOp::window
Constructed ==
    /\ variant \in Variants
    /\ drain_when_finished \in (IF variant = "max_time" THEN BOOLEAN ELSE {FALSE})
    /\ LET w == new(size, init_time)
       IN /\ emit_time = w.emit_time
          /\ max_time = w.max_time
          /\ buffer = w.buffer
          /\ panicked = w.panic
    /\ frontier = {0}
    /\ inq = <<>>
    /\ cap = Some(0)
    /\ stash = EmptyBuffer
    /\ notificator = {}
    /\ sent = <<>>
    /\ given = EmptyBuffer
    /\ op = "new"
    /\ ret = None
    /\ emitted = EmptyBuffer
    /\ closed = None
    /\ t0 = init_time
    /\ in_order = TRUE
    /\ calls = 0

Init ==
    /\ size \in Sizes
    /\ init_time \in {None} \cup {Some(t) : t \in 0..MaxInit}
    /\ Constructed

\* ------------------------------------------------------------------------
\* The runtime: the frontier only advances, never past a batch still in
\* flight, and becomes empty when upstream has finished.
advance_to(g) ==
    /\ \E f \in frontier : f < g
    /\ \A i \in 1..Len(inq) : g <= inq[i][1]
    /\ frontier' = {g}

Advance ==
    /\ ~panicked
    /\ \E g \in Times : advance_to(g)
    /\ op' = "advance"
    /\ ret' = None
    /\ UNCHANGED <<config_vars, policy_vars, driver_vars, panicked, given, emitted, closed,
                   t0, in_order, calls>>

Close ==
    /\ ~panicked
    /\ frontier # {}
    /\ inq = <<>>
    /\ frontier' = {}
    /\ op' = "advance"
    /\ ret' = None
    /\ UNCHANGED <<config_vars, policy_vars, driver_vars, panicked, given, emitted, closed,
                   t0, in_order, calls>>

\* ------------------------------------------------------------------------
\* The policy driven directly through its interface
set_policy(w) ==
    /\ emit_time' = w.emit_time
    /\ max_time' = w.max_time
    /\ buffer' = w.buffer
    /\ panicked' = w.panic

GiveVec ==
    /\ ~panicked
    /\ calls < MaxCalls
    /\ \E time \in Times, data \in DataVecs :
          /\ set_policy(give_vec(self, time, data))
          /\ given' = store(given, time, data)
          /\ t0' = IF is_none(t0) THEN Some(time) ELSE t0
    /\ op' = "give"
    /\ ret' = None
    /\ in_order' = (in_order /\ op \in {"new", "give"})
    /\ calls' = calls + 1
    /\ UNCHANGED <<config_vars, frontier, driver_vars, emitted, closed>>

\* Window::give: give_vec(time, vec![datum])
Give ==
    /\ ~panicked
    /\ calls < MaxCalls
    /\ \E time \in Times, datum \in Data :
          /\ set_policy(give_vec(self, time, <<datum>>))
          /\ given' = store(given, time, <<datum>>)
          /\ t0' = IF is_none(t0) THEN Some(time) ELSE t0
    /\ op' = "give"
    /\ ret' = None
    /\ in_order' = (in_order /\ op \in {"new", "give"})
    /\ calls' = calls + 1
    /\ UNCHANGED <<config_vars, frontier, driver_vars, emitted, closed>>

\* history: file a batch of records under their timestamps
RECURSIVE record_all(_, _)
record_all(hist, recs) ==
    IF recs = <<>> THEN hist
    ELSE record_all(store(hist, recs[1][1], <<recs[1][2]>>), Tail(recs))

\* history: a try_emit that directly follows a try_emit is marked
IsTryEmit(o) == o \in {"try_emit", "try_emit_again"}
try_emit_op == IF IsTryEmit(op) THEN "try_emit_again" ELSE "try_emit"

returned(r, by_drain) ==
    /\ set_policy(r.w)
    /\ ret' = r.ret
    /\ emitted' = IF is_some(r.ret) THEN record_all(emitted, unwrap(r.ret)[2]) ELSE emitted
    /\ closed' = IF is_some(r.ret) /\ ~by_drain THEN Some(unwrap(r.ret)[1]) ELSE closed

\* Boundaries beyond Horizon have every timestamp of the model below them
Horizon == MaxTime + MaxSize + 1

TryEmit ==
    /\ ~panicked
    /\ variant = "watermark"
    /\ IF is_some(emit_time) THEN unwrap(emit_time) <= Horizon ELSE TRUE
    /\ op' = try_emit_op
    /\ returned(try_emit(self, frontier), FALSE)
    /\ UNCHANGED <<config_vars, frontier, driver_vars, given, t0, in_order, calls>>

TryEmitMax ==
    /\ ~panicked
    /\ variant = "max_time"
    /\ op' = try_emit_op
    /\ returned(try_emit_max(self), FALSE)
    /\ UNCHANGED <<config_vars, frontier, driver_vars, given, t0, in_order, calls>>

Drain ==
    /\ ~panicked
    /\ variant = "max_time"
    /\ op' = "drain"
    /\ \E order \in Orders(timestamps(buffer)) : returned(drain(self, order), TRUE)
    /\ UNCHANGED <<config_vars, frontier, driver_vars, given, t0, in_order, calls>>

\* The watermark handed to try_emit: only the watermark policy takes one
AdvanceWatermark ==
    /\ ~panicked
    /\ variant = "watermark"
    /\ \E g \in Times :
          /\ advance_to(g)
          /\ in_order' = (in_order /\ op # "advance" /\ frontier = {g - 1})
    /\ op' = "advance"
    /\ ret' = None
    /\ UNCHANGED <<config_vars, policy_vars, driver_vars, panicked, given, emitted, closed,
                   t0, calls>>

CloseWatermark ==
    /\ ~panicked
    /\ variant = "watermark"
    /\ frontier # {}
    /\ frontier' = {}
    /\ op' = "advance"
    /\ ret' = None
    /\ in_order' = (in_order /\ op # "advance")
    /\ UNCHANGED <<config_vars, policy_vars, driver_vars, panicked, given, emitted, closed,
                   t0, calls>>

NextPolicy ==
    \/ Give
    \/ GiveVec
    \/ TryEmit
    \/ TryEmitMax
    \/ Drain
    \/ AdvanceWatermark
    \/ CloseWatermark

SpecPolicy == Init /\ [][NextPolicy]_vars

\* ------------------------------------------------------------------------
\* The policy together with what its public interface exposes beside give,
\* try_emit and drain: a buffer handed in at construction
\* (new_with_buffer), the buffer reached through Window::buffer() and changed
\* with WindowBuffer::store / remove, and the hook on_new_data called alone.

\* number of data a buffer holds
RECURSIVE NumStoredIn(_, _)
NumStoredIn(buf, ts) ==
    IF ts = {} THEN 0
    ELSE LET t == CHOOSE x \in ts : TRUE
         IN Len(buf[t]) + NumStoredIn(buf, ts \ {t})

NumStored(buf) == NumStoredIn(buf, DOMAIN buf)

\* the buffers handed to new_with_buffer: empty, or one timestamp with data
InitBuffers ==
    {EmptyBuffer} \cup {[x \in {t} |-> v] : t \in Times, v \in NonEmptyVecs}

InitBuffer ==
    /\ size \in Sizes
    /\ init_time \in {None} \cup {Some(t) : t \in 0..MaxInit}
    /\ variant \in Variants
    /\ drain_when_finished = FALSE
    /\ \E buf \in (IF variant = "watermark" THEN InitBuffers ELSE {EmptyBuffer}) :
          LET w == new_with_buffer(size, init_time, buf)
          IN /\ emit_time = w.emit_time
             /\ max_time = w.max_time
             /\ buffer = w.buffer
             /\ panicked = w.panic
             /\ given = buf
             /\ calls = NumStored(buf)
    /\ frontier = {0}
    /\ inq = <<>>
    /\ cap = Some(0)
    /\ stash = EmptyBuffer
    /\ notificator = {}
    /\ sent = <<>>
    /\ op = "new"
    /\ ret = None
    /\ emitted = EmptyBuffer
    /\ closed = None
    /\ t0 = init_time
    /\ in_order = FALSE

\* window.buffer().store(time, data)
Store ==
    /\ ~panicked
    /\ calls < MaxCalls
    /\ \E time \in Times, data \in DataVecs :
          /\ buffer' = store(buffer, time, data)
          /\ given' = store(given, time, data)
    /\ op' = "store"
    /\ ret' = None
    /\ in_order' = FALSE
    /\ calls' = calls + 1
    /\ UNCHANGED <<config_vars, emit_time, max_time, frontier, driver_vars, panicked,
                   emitted, closed, t0>>

\* window.buffer().remove(&time)
Remove ==
    /\ ~panicked
    /\ \E time \in Times :
          /\ time \in timestamps(buffer)
          /\ buffer' = remove(buffer, time)
    /\ op' = "remove"
    /\ ret' = None
    /\ in_order' = FALSE
    /\ UNCHANGED <<config_vars, emit_time, max_time, frontier, driver_vars, panicked,
                   given, emitted, closed, t0, calls>>

\* window.on_new_data(&time, &data), called without the store that give_vec adds
OnNewData ==
    /\ ~panicked
    /\ calls < MaxCalls
    /\ \E time \in Times :
          LET w == IF variant = "watermark" THEN on_new_data(self, time)
                   ELSE on_new_data_max(self, time)
          IN /\ set_policy(w)
             /\ t0' = IF is_none(t0) THEN Some(time) ELSE t0
    /\ op' = "on_new_data"
    /\ ret' = None
    /\ in_order' = FALSE
    /\ calls' = calls + 1
    /\ UNCHANGED <<config_vars, frontier, driver_vars, given, emitted, closed>>

NextBuffer ==
    \/ Give
    \/ GiveVec
    \/ Store
    \/ Remove
    \/ OnNewData
    \/ TryEmit
    \/ TryEmitMax
    \/ Drain
    \/ CloseWatermark

SpecBuffer == InitBuffer /\ [][NextBuffer]_vars

\* ------------------------------------------------------------------------
\* The operator driver: WindowOp::window

\* upstream sends one batch at a time the frontier still allows
Send ==
    /\ ~panicked
    /\ calls < MaxCalls
    /\ \E time \in Times, data \in NonEmptyVecs :
          /\ less_equal(frontier, time)
          /\ inq' = Append(inq, <<time, data>>)
    /\ op' = "send"
    /\ ret' = None
    /\ calls' = calls + 1
    /\ UNCHANGED <<config_vars, policy_vars, frontier, cap, stash, notificator, sent,
                   panicked, given, emitted, closed, t0, in_order>>

\* input.for_each(|time, data| window.give_vec(time.time().clone(), data.take()))
RECURSIVE give_all(_, _)
give_all(w, q) ==
    IF q = <<>> \/ w.panic THEN w
    ELSE give_all(give_vec(w, q[1][1], q[1][2]), Tail(q))

RECURSIVE record_batches(_, _)
record_batches(hist, q) ==
    IF q = <<>> THEN hist
    ELSE record_batches(store(hist, q[1][1], q[1][2]), Tail(q))

\* Capability::delayed: the time must not be earlier than the capability's
delayed(c, time) == IF is_some(c) /\ unwrap(c) <= time THEN Some(time) ELSE None

\* let new_time = cap.delayed(&emit_time); [cap.downgrade(&emit_time);]
\* stash.entry(new_time).or_insert_with(|| { notify_at(new_time); vec![] }).extend(emit_data)
\* d is the driver's state, r the policy's result
stash_result_keep_cap(d, r, downgrade) ==
    IF is_none(r) THEN d
    ELSE LET e == unwrap(r)[1]
             data == unwrap(r)[2]
             new_time == delayed(d.cap, e)
         IN IF is_none(new_time) THEN [d EXCEPT !.panic = TRUE]
            ELSE [cap |-> d.cap,
                  stash |-> store(d.stash, unwrap(new_time), data),
                  notificator |-> IF unwrap(new_time) \in DOMAIN d.stash
                                  THEN d.notificator
                                  ELSE d.notificator \cup {unwrap(new_time)},
                  panic |-> FALSE]

stash_result(d, r, downgrade) ==
    IF is_none(r) THEN d
    ELSE LET e == unwrap(r)[1]
             data == unwrap(r)[2]
             new_time == delayed(d.cap, e)
         IN IF is_none(new_time) THEN [d EXCEPT !.panic = TRUE]
            ELSE [cap |-> IF downgrade THEN Some(e) ELSE d.cap,
                  stash |-> store(d.stash, unwrap(new_time), data),
                  notificator |-> IF unwrap(new_time) \in DOMAIN d.stash
                                  THEN d.notificator
                                  ELSE d.notificator \cup {unwrap(new_time)},
                  panic |-> FALSE]

\* FrontierNotificator::for_each: the pending times the frontier has passed, ascending
available_desc(pending, fr) ==
    LET asc == sort({t \in pending : ~less_equal(fr, t)})
    IN [i \in 1..Len(asc) |-> asc[Len(asc) + 1 - i]]

available(pending, fr) == sort({t \in pending : ~less_equal(fr, t)})

\* if let Some(data) = stash.remove(&time) { output.session(&time).give(data) }
RECURSIVE flush(_, _)
flush(st, times) ==
    IF times = <<>> THEN <<>>
    ELSE IF Head(times) \in DOMAIN st
         THEN <<<<Head(times), st[Head(times)]>>>> \o flush(remove(st, Head(times)), Tail(times))
         ELSE flush(st, Tail(times))

RECURSIVE stash_remove(_, _)
stash_remove(st, times) ==
    IF times = <<>> THEN st
    ELSE stash_remove(IF Head(times) \in DOMAIN st THEN remove(st, Head(times)) ELSE st,
                      Tail(times))

\* stash.retain(|_, v| !v.is_empty())
retain(st) == [t \in {x \in DOMAIN st : st[x] # <<>>} |-> st[t]]

\* the tail of the closure: notificator.for_each(...) and stash.retain(...)
notify_and_retain(d) ==
    LET times == available(d.notificator, frontier)
    IN /\ sent' = sent \o flush(d.stash, times)
       /\ stash' = retain(stash_remove(d.stash, times))
       /\ notificator' = d.notificator \ {times[i] : i \in 1..Len(times)}
       /\ cap' = d.cap

driver == [cap |-> cap, stash |-> stash, notificator |-> notificator, panic |-> FALSE]

\* every send is one more state of the history; size 0 closes a boundary on every call
MaxSent == 4

\* one invocation of the closure of generic.rs
window ==
    /\ ~panicked
    /\ variant = "watermark"
    /\ Len(sent) < MaxSent
    /\ op' = "window"
    /\ IF frontier = {}
       THEN /\ notify_and_retain([driver EXCEPT !.cap = None])
            /\ ret' = None
            /\ UNCHANGED <<policy_vars, panicked, inq, given, emitted, closed, t0>>
       ELSE LET w == give_all(self, inq)
                r == IF w.panic THEN [w |-> w, ret |-> None] ELSE try_emit(w, frontier)
                d == stash_result(driver, r.ret, TRUE)
            IN /\ inq' = <<>>
               /\ given' = record_batches(given, inq)
               /\ t0' = IF is_none(t0) /\ inq # <<>> THEN Some(inq[1][1]) ELSE t0
               /\ IF r.w.panic \/ d.panic
                  THEN /\ panicked' = TRUE
                       /\ UNCHANGED <<policy_vars, cap, stash, notificator, sent, ret, emitted, closed>>
                  ELSE /\ returned(r, FALSE)
                       /\ notify_and_retain(d)
    /\ UNCHANGED <<config_vars, frontier, in_order, calls>>

\* one invocation of the closure of window.rs
window_max ==
    /\ ~panicked
    /\ variant = "max_time"
    /\ Len(sent) < MaxSent
    /\ op' = "window"
    /\ IF frontier = {}
       THEN \E order \in Orders(timestamps(buffer)) :
              LET r == IF drain_when_finished THEN drain(self, order) ELSE [w |-> self, ret |-> None]
                  d == stash_result(driver, r.ret, FALSE)
              IN IF d.panic
                 THEN /\ panicked' = TRUE
                      /\ UNCHANGED <<policy_vars, cap, stash, notificator, sent, ret, emitted,
                                     closed, inq, given, t0>>
                 ELSE /\ returned(r, TRUE)
                      /\ notify_and_retain([d EXCEPT !.cap = None])
                      /\ UNCHANGED <<inq, given, t0>>
       ELSE LET w == give_all(self, inq)
                r == IF w.panic THEN [w |-> w, ret |-> None] ELSE try_emit_max(w)
                d == stash_result(driver, r.ret, TRUE)
            IN /\ inq' = <<>>
               /\ given' = record_batches(given, inq)
               /\ t0' = IF is_none(t0) /\ inq # <<>> THEN Some(inq[1][1]) ELSE t0
               /\ IF r.w.panic \/ d.panic
                  THEN /\ panicked' = TRUE
                       /\ UNCHANGED <<policy_vars, cap, stash, notificator, sent, ret, emitted, closed>>
                  ELSE /\ returned(r, FALSE)
                       /\ notify_and_retain(d)
    /\ UNCHANGED <<config_vars, frontier, in_order, calls>>

Next ==
    \/ Send
    \/ Advance
    \/ Close
    \/ window
    \/ window_max

Spec == Init /\ [][Next]_vars

\* ------------------------------------------------------------------------
\* The run of tests::run (windows/tumbling.rs and window.rs): size 4, no
\* initial time, `for round in 1..10 { input.send(round);
\* input.advance_to(round + 1); worker.step_while(..) }`, then the input is
\* dropped.  The input handle starts at epoch 0, so the test sends round 1 at
\* time 0; a run that first advances to epoch 1 sends every round at its own
\* time 1..9.  The operator sees the frontier advance once it has pulled the
\* round's record, and is invoked before the next round is sent.
ScenarioSize == 4
ScenarioEnd == 10

InitScenario ==
    /\ size = ScenarioSize
    /\ init_time = None
    /\ Constructed

ScenarioSend ==
    /\ ~panicked
    /\ calls < ScenarioEnd - 1
    /\ op \in {"new", "window"}
    /\ frontier \in {{calls + 1}, {calls}} /\ (calls = 0 \/ frontier = {calls + 1})
    /\ \E f \in frontier : inq' = Append(inq, <<f, <<calls + 1>>>>)
    /\ op' = "send"
    /\ ret' = None
    /\ calls' = calls + 1
    /\ UNCHANGED <<config_vars, policy_vars, frontier, cap, stash, notificator, sent,
                   panicked, given, emitted, closed, t0, in_order>>

ScenarioAdvance ==
    /\ ~panicked
    /\ op \in {"new", "window"}
    /\ advance_to(calls + 1)
    /\ op' = "advance"
    /\ ret' = None
    /\ UNCHANGED <<config_vars, policy_vars, driver_vars, panicked, given, emitted, closed,
                   t0, in_order, calls>>

ScenarioClose ==
    /\ op = "window"
    /\ frontier = {ScenarioEnd}
    /\ Close

NextScenario ==
    \/ ScenarioSend
    \/ ScenarioAdvance
    \/ ScenarioClose
    \/ window
    \/ window_max

SpecScenario == InitScenario /\ [][NextScenario]_vars

\* ------------------------------------------------------------------------
\* The policy at the top of the timestamp range, where size.results_in(..)
\* has no result: the same operations, with timestamps drawn from the last
\* MaxTime + 1 values of the type.
HighTimes == {TimestampMax - d : d \in 0..MaxTime}

InitOverflow ==
    /\ size \in Sizes
    /\ init_time \in {None} \cup {Some(t) : t \in HighTimes}
    /\ Constructed

GiveHigh ==
    /\ ~panicked
    /\ calls < MaxCalls
    /\ \E time \in HighTimes, data \in DataVecs :
          /\ set_policy(give_vec(self, time, data))
          /\ given' = store(given, time, data)
          /\ t0' = IF is_none(t0) THEN Some(time) ELSE t0
    /\ op' = "give"
    /\ ret' = None
    /\ calls' = calls + 1
    /\ UNCHANGED <<config_vars, frontier, driver_vars, emitted, closed, in_order>>

TryEmitHigh ==
    /\ ~panicked
    /\ variant = "watermark"
    /\ op' = try_emit_op
    /\ returned(try_emit(self, frontier), FALSE)
    /\ UNCHANGED <<config_vars, frontier, driver_vars, given, t0, in_order, calls>>

AdvanceHigh ==
    /\ ~panicked
    /\ variant = "watermark"
    /\ \E g \in HighTimes : advance_to(g)
    /\ op' = "advance"
    /\ ret' = None
    /\ UNCHANGED <<config_vars, policy_vars, driver_vars, panicked, given, emitted, closed,
                   t0, in_order, calls>>

NextOverflow ==
    \/ GiveHigh
    \/ TryEmitHigh
    \/ TryEmitMax
    \/ Drain
    \/ AdvanceHigh
    \/ CloseWatermark

SpecOverflow == InitOverflow /\ [][NextOverflow]_vars

\* ------------------------------------------------------------------------
\* Vocabulary of the properties

\* number of times datum d is filed under timestamp t
Occ(hist, t, d) ==
    IF t \in DOMAIN hist THEN Cardinality({i \in 1..Len(hist[t]) : hist[t][i] = d}) ELSE 0

AllData(hist) == UNION {{hist[t][i] : i \in 1..Len(hist[t])} : t \in DOMAIN hist}

\* the two histories hold the same multiset of records
SameRecords(h1, h2) ==
    \A t \in DOMAIN h1 \cup DOMAIN h2 : \A d \in AllData(h1) \cup AllData(h2) :
        Occ(h1, t, d) = Occ(h2, t, d)

RECURSIVE CountIn(_, _)
CountIn(hist, ts) == IF ts = {} THEN 0
                     ELSE LET t == CHOOSE x \in ts : TRUE
                          IN Len(hist[t]) + CountIn(hist, ts \ {t})

NumRecords(hist) == CountIn(hist, DOMAIN hist)

\* the records sent downstream, filed under their timestamps
RECURSIVE SentRecords(_)
SentRecords(batches) ==
    IF batches = <<>> THEN EmptyBuffer
    ELSE record_all(SentRecords(SubSeq(batches, 1, Len(batches) - 1)), batches[Len(batches)][2])

\* the records upstream has delivered: given to the policy or still in flight
Delivered == record_batches(given, inq)

\* the records of a batch that carry timestamp t
AtTime(batch, t) == SelectSeq(batch, LAMBDA r : r[1] = t)

Ascending(batch) == \A i, j \in 1..Len(batch) : i < j => batch[i][1] <= batch[j][1]

\* the frontier has passed time t: it contains no time less than or equal to t
Passed(t) == \A f \in frontier : f > t

\* the invocation that observed the empty frontier has run
Finished == is_none(cap)

\* ------------------------------------------------------------------------
\* C1: with drain_when_finished set, once the window.rs driver has run the
\* invocation that observes the empty frontier, the records sent downstream
\* are exactly the records upstream delivered, each one once.
C1_ExactlyOnce ==
    (variant = "max_time" /\ drain_when_finished /\ Finished)
        => /\ inq = <<>>
           /\ SameRecords(SentRecords(sent), Delivered)

\* a run that closed a boundary by try_emit, drained a rest at the end and sent both
C1_Witness ==
    /\ variant = "max_time" /\ drain_when_finished /\ Finished
    /\ op = "window" /\ is_some(ret) /\ is_some(closed)
    /\ Len(sent) >= 2
    /\ \E i \in 1..Len(sent) : sent[i][1] = unwrap(closed) /\ sent[i][2] # <<>>
    /\ NumRecords(given) = MaxCalls

\* ------------------------------------------------------------------------
\* C2 (as stated): after gives followed by frontier advances past every given
\* timestamp, with try_emit called after each advance, the batches returned by
\* try_emit (plus the drain batch where the policy has a drain) are exactly
\* the given records.
C2_Original ==
    (/\ in_order /\ size > 0
     /\ \/ variant = "watermark" /\ IsTryEmit(op) /\ \A t \in DOMAIN given : Passed(t)
        \/ variant = "max_time" /\ op = "drain")
        => SameRecords(emitted, given)

\* C2 (amended): the batches returned by try_emit and drain never hold a record
\* twice nor a record that was not given; together with the records still
\* buffered they are exactly the given records, and once drain has been called
\* they are exactly the given records on their own.
C2_Conservation ==
    /\ \A t \in DOMAIN given \cup DOMAIN emitted \cup DOMAIN buffer :
         \A d \in AllData(given) \cup AllData(emitted) \cup AllData(buffer) :
            Occ(emitted, t, d) + Occ(buffer, t, d) = Occ(given, t, d)
    /\ op = "drain" => SameRecords(emitted, given)

\* a drain that returned the rest after try_emit had returned a first batch
C2_Witness ==
    /\ op = "drain" /\ is_some(ret) /\ is_some(closed)
    /\ NumRecords(emitted) > Len(unwrap(ret)[2])
    /\ NumRecords(given) = MaxCalls

\* ------------------------------------------------------------------------
\* C3: the watermark try_emit returns none and changes neither buffer nor
\* boundary while the boundary is unset or the frontier holds a time less than
\* or equal to it; a boundary it returns is one the frontier has fully passed.
C3_NotBeforePassed ==
    [][(variant = "watermark" /\ IsTryEmit(op'))
         => /\ (IF is_none(emit_time) THEN TRUE ELSE \E f \in frontier : f <= unwrap(emit_time))
               => (is_none(ret') /\ buffer' = buffer /\ emit_time' = emit_time)
            /\ is_some(ret')
               => /\ is_some(emit_time)
                  /\ unwrap(ret')[1] = unwrap(emit_time)
                  /\ \A f \in frontier : f > unwrap(emit_time)]_vars

\* try_emit returned none with the frontier exactly on the boundary and data below it
C3_Witness ==
    /\ variant = "watermark" /\ IsTryEmit(op) /\ is_none(ret)
    /\ is_some(emit_time) /\ frontier = {unwrap(emit_time)}
    /\ \E t \in DOMAIN buffer : t < unwrap(emit_time) /\ buffer[t] # <<>>

\* ------------------------------------------------------------------------
\* C4: a stash entry goes downstream at output time T only in an invocation
\* whose frontier holds no time less than or equal to T; that invocation sends
\* every stash entry whose time has been passed, as one batch each, and removes
\* it; no record of the stash is sent twice.
NewlySent == SubSeq(sent', Len(sent) + 1, Len(sent'))

C4_FlushWhenPassed ==
    [][(op' = "window" /\ ~panicked')
         => /\ \A i \in 1..Len(NewlySent) : \A f \in frontier : f > NewlySent[i][1]
            /\ \A i, j \in 1..Len(NewlySent) : i # j => NewlySent[i][1] # NewlySent[j][1]
            /\ \A T \in DOMAIN stash' : \E f \in frontier : f <= T
            /\ \A T \in DOMAIN stash :
                 (\A f \in frontier : f > T)
                    => \E i \in 1..Len(NewlySent) :
                         /\ NewlySent[i][1] = T
                         /\ SubSeq(NewlySent[i][2], 1, Len(stash[T])) = stash[T]
            /\ \A t \in DOMAIN SentRecords(sent') : \A d \in AllData(SentRecords(sent')) :
                 Occ(SentRecords(sent'), t, d) <= Occ(given', t, d)]_vars

\* a batch that waited in the stash has been sent while a later one still waits
C4_Witness ==
    /\ op = "window" /\ sent # <<>> /\ is_some(closed)
    /\ sent[Len(sent)][1] < unwrap(closed)
    /\ sent[Len(sent)][2] # <<>>
    /\ unwrap(closed) \in DOMAIN stash
    /\ frontier # {}

\* ------------------------------------------------------------------------
\* C5: a try_emit that directly follows a try_emit, with no give
\* and no frontier advance in between, returns none.
C5_Original == [][(op' = "try_emit_again" /\ size > 0) => is_none(ret')]_vars

\* What the code does instead (C5): a try_emit that directly follows a
\* try_emit returns none and changes nothing when the first one returned none;
\* when the first one closed boundary b, the second returns none unless the
\* readiness test also holds for b + size, and then it closes b + size: one
\* boundary per call, so a call can leave a closable boundary behind.
ReadyFor(b) ==
    IF variant = "watermark" THEN \A f \in frontier : f > b
    ELSE is_some(max_time) /\ unwrap(max_time) >= b

C5_RepeatClosesNext ==
    [][(op' = "try_emit_again" /\ ~panicked')
         => /\ is_none(ret) => (is_none(ret') /\ UNCHANGED policy_vars)
            /\ is_some(ret) =>
                 IF ReadyFor(unwrap(ret)[1] + size)
                 THEN is_some(ret') /\ unwrap(ret')[1] = unwrap(ret)[1] + size
                 ELSE is_none(ret') /\ UNCHANGED policy_vars]_vars

\* the repeated call closed the next boundary and returned records
C5_Witness ==
    /\ op = "try_emit_again" /\ is_some(ret) /\ unwrap(ret)[2] # <<>>

\* ------------------------------------------------------------------------
\* C6: with a positive size, each boundary a successful try_emit returns is the
\* previously returned boundary plus the size, hence strictly greater.
C6_BoundariesIncrease ==
    [][(IsTryEmit(op') /\ is_some(ret') /\ is_some(closed) /\ size > 0)
         => /\ unwrap(ret')[1] = unwrap(closed) + size
            /\ unwrap(ret')[1] > unwrap(closed)]_vars

\* a third boundary has been closed
C6_Witness ==
    /\ IsTryEmit(op) /\ is_some(ret) /\ size > 0 /\ is_some(t0)
    /\ unwrap(ret)[1] >= unwrap(t0) + 3 * size

\* ------------------------------------------------------------------------
\* C7: a successful try_emit at boundary b returns exactly the buffered
\* records with a timestamp strictly below b, in ascending timestamp order and
\* in the order given within one timestamp, removes those timestamps and
\* leaves the timestamps at or above b as they were.
C7_ClosesBelowBoundary ==
    [][(IsTryEmit(op') /\ is_some(ret'))
         => LET b == unwrap(ret')[1]
                batch == unwrap(ret')[2]
            IN /\ \A i \in 1..Len(batch) : batch[i][1] < b /\ batch[i][1] \in DOMAIN buffer
               /\ Ascending(batch)
               /\ \A t \in DOMAIN buffer :
                    IF t < b
                    THEN /\ t \notin DOMAIN buffer'
                         /\ AtTime(batch, t) = [i \in 1..Len(buffer[t]) |-> <<t, buffer[t][i]>>]
                    ELSE /\ t \in DOMAIN buffer'
                         /\ buffer'[t] = buffer[t]
               /\ DOMAIN buffer' \subseteq DOMAIN buffer]_vars

\* two different data of one timestamp returned, a record on the boundary kept
C7_Witness ==
    /\ IsTryEmit(op) /\ is_some(ret)
    /\ LET b == unwrap(ret)[1]
           batch == unwrap(ret)[2]
       IN /\ Len(batch) = 2
          /\ batch[1][1] = batch[2][1] /\ batch[1][2] > batch[2][2]
          /\ b \in DOMAIN buffer /\ buffer[b] # <<>>

\* ------------------------------------------------------------------------
\* C8 (as stated): the first boundary is t0 + size, and a record at t >= t0 is
\* returned with boundary t0 + ceil((t - t0) / size) * size.
FirstBoundary ==
    (~panicked /\ is_none(closed))
        => emit_time = (IF is_some(t0) THEN Some(unwrap(t0) + size) ELSE None)

\* the records of the returned batch that were given before their window closed
InTime(batch) == {i \in 1..Len(batch) : batch[i][1] >= unwrap(t0)
                                         /\ (is_some(closed) => batch[i][1] >= unwrap(closed))}

C8_Original ==
    [][(variant = "watermark" /\ in_order /\ IsTryEmit(op') /\ is_some(ret') /\ size > 0)
         => LET b == unwrap(ret')[1]
                batch == unwrap(ret')[2]
            IN \A i \in InTime(batch) :
                 b = unwrap(t0) + ((batch[i][1] - unwrap(t0) + size - 1) \div size) * size]_vars

\* C8 (amended): the first boundary is t0 + size, and a record at t >= t0 is
\* returned with boundary t0 + (floor((t - t0) / size) + 1) * size: a timestamp
\* that lies on a boundary belongs to the window that follows it.
C8_BoundaryLaw ==
    /\ []FirstBoundary
    /\ [][(IsTryEmit(op') /\ is_some(ret') /\ size > 0)
            => LET b == unwrap(ret')[1]
                   batch == unwrap(ret')[2]
               IN \A i \in InTime(batch) :
                    b = unwrap(t0) + (((batch[i][1] - unwrap(t0)) \div size) + 1) * size]_vars

\* a record whose timestamp lies on a boundary after t0 has been returned
C8_Witness ==
    /\ IsTryEmit(op) /\ is_some(ret) /\ size > 1
    /\ \E i \in 1..Len(unwrap(ret)[2]) :
         LET t == unwrap(ret)[2][i][1]
         IN t > unwrap(t0) /\ (t - unwrap(t0)) % size = 0 /\ unwrap(ret)[1] = t + size

\* ------------------------------------------------------------------------
\* C10: drain returns none when no datum is buffered and never an empty
\* batch; otherwise it returns the current boundary with every buffered
\* record, ascending by timestamp and in the order given within a timestamp;
\* it leaves the buffer empty, so that a second drain returns none.
C10_Drain ==
    [][(op' = "drain")
         => /\ (\A t \in DOMAIN buffer : buffer[t] = <<>>) <=> is_none(ret')
            /\ buffer' = EmptyBuffer
            /\ emit_time' = emit_time
            /\ op = "drain" => is_none(ret')
            /\ is_some(ret')
               => LET batch == unwrap(ret')[2]
                  IN /\ batch # <<>>
                     /\ emit_time = Some(unwrap(ret')[1])
                     /\ Ascending(batch)
                     /\ \A i \in 1..Len(batch) : batch[i][1] \in DOMAIN buffer
                     /\ \A t \in DOMAIN buffer :
                          AtTime(batch, t) = [i \in 1..Len(buffer[t]) |-> <<t, buffer[t][i]>>]]_vars

\* a drain returned records below and above its boundary, two of one timestamp
C10_Witness ==
    /\ op = "drain" /\ is_some(ret)
    /\ LET b == unwrap(ret)[1]
           batch == unwrap(ret)[2]
       IN /\ Len(batch) = 3
          /\ batch[1][1] < b
          /\ batch[2][1] >= b /\ batch[2][1] = batch[3][1] /\ batch[2][2] > batch[3][2]

\* ------------------------------------------------------------------------
\* C9 (as stated): size 4, one record at each of the times 1..9, the frontier
\* advanced to 10 and closed: the batches are boundary 4 with the records of
\* 1..3, boundary 8 with those of 4..7 and, with drain, the records of 8..9
\* tagged 12.

\* the batch tagged b that holds the records of rounds lo..hi
RoundTime(r) == IF r = 1 /\ 0 \in DOMAIN given THEN 0 ELSE r
Batch(b, lo, hi) == <<b, [i \in 1..(hi - lo + 1) |-> <<RoundTime(lo + i - 1), lo + i - 1>>]>>

C9_Original ==
    (Finished /\ DOMAIN given = 1..(ScenarioEnd - 1))
        => sent = <<Batch(4, 1, 3), Batch(8, 4, 7)>>
                    \o (IF drain_when_finished THEN <<Batch(12, 8, 9)>> ELSE <<>>)

\* C9 (amended): the batches are those when the first record is given at time
\* 0, as tests::run sends it (round 1 at time 0, round k at time k for k in
\* 2..9).  With every record at its own time 1..9 the first boundary is
\* 1 + 4 = 5: rounds 1..4 go out at boundary 5, rounds 5..8 at boundary 9 and,
\* with drain, round 9 tagged 13.
C9_Scenario ==
    Finished
        => /\ NumRecords(given) = ScenarioEnd - 1
           /\ IF 0 \in DOMAIN given
              THEN sent = <<Batch(4, 1, 3), Batch(8, 4, 7)>>
                            \o (IF drain_when_finished THEN <<Batch(12, 8, 9)>> ELSE <<>>)
              ELSE sent = <<Batch(5, 1, 4), Batch(9, 5, 8)>>
                            \o (IF drain_when_finished THEN <<Batch(13, 9, 9)>> ELSE <<>>)

\* the test's run has finished with drain enabled and three batches sent
C9_Witness ==
    /\ Finished /\ drain_when_finished /\ 0 \in DOMAIN given
    /\ Len(sent) = 3 /\ sent[3][1] = 12 /\ Len(sent[3][2]) = 2

\* ------------------------------------------------------------------------
\* C11: a record given with a timestamp below a boundary try_emit has already
\* closed is appended to the buffer; a try_emit that returns none leaves it
\* there; the next successful try_emit returns it in its batch, and so does
\* drain: late data is never dropped.
NewData(t) == SubSeq(given'[t], (IF t \in DOMAIN given THEN Len(given[t]) ELSE 0) + 1,
                     Len(given'[t]))
Buffered(t) == IF t \in DOMAIN buffer THEN buffer[t] ELSE <<>>
Late(t) == is_some(closed) /\ t < unwrap(closed)

C11_LateDataKept ==
    [][/\ (op' = "give" /\ ~panicked')
          => \A t \in DOMAIN given' :
                (Late(t) /\ NewData(t) # <<>>)
                   => t \in DOMAIN buffer' /\ buffer'[t] = Buffered(t) \o NewData(t)
       /\ (IsTryEmit(op') /\ is_none(ret') /\ ~panicked')
          => \A t \in DOMAIN buffer : Late(t) => t \in DOMAIN buffer' /\ buffer'[t] = buffer[t]
       /\ ((IsTryEmit(op') /\ is_some(ret')) \/ (op' = "drain" /\ buffer # EmptyBuffer))
          => \A t \in DOMAIN buffer :
                (Late(t) /\ buffer[t] # <<>>)
                   => /\ is_some(ret')
                      /\ AtTime(unwrap(ret')[2], t) = [i \in 1..Len(buffer[t]) |-> <<t, buffer[t][i]>>]
                      /\ unwrap(ret')[1] >= unwrap(closed)]_vars

\* a batch holds a record of a window that was closed before the record was given
C11_Witness ==
    /\ IsTryEmit(op) /\ is_some(ret) /\ is_some(t0) /\ size > 0
    /\ LET b == unwrap(ret)[1]
           batch == unwrap(ret)[2]
       IN /\ b >= unwrap(t0) + 2 * size
          /\ \E i \in 1..Len(batch) : batch[i][1] >= unwrap(t0) /\ batch[i][1] < b - size

\* ------------------------------------------------------------------------
\* C12: closing a boundary with no buffered timestamp below it advances the
\* boundary and produces no output: the driver sends nothing downstream for
\* that boundary, in particular no empty batch.
C12_NoEmptyBatch ==
    size > 0 => \A i \in 1..Len(sent) : sent[i][2] # <<>>

\* ------------------------------------------------------------------------
\* C13: at the end of every invocation of the generic.rs driver that observed
\* a non-empty frontier, no record is still buffered whose window boundary the
\* frontier has passed, however far the frontier advanced in one step.  (The
\* claim derives this from the frontier not having passed the policy's
\* current boundary; the consequence alone is stated, on buffered records.)
BoundaryOf(t) == unwrap(t0) + (((t - unwrap(t0)) \div size) + 1) * size

C13_EmittedEarly ==
    (variant = "watermark" /\ size > 0 /\ op = "window" /\ frontier # {} /\ ~panicked)
        => \A t \in DOMAIN buffer :
              (buffer[t] # <<>> /\ t >= unwrap(t0)) => ~Passed(BoundaryOf(t))

\* ------------------------------------------------------------------------
\* C14 (as stated): the window.rs try_emit closes the current boundary only
\* when the greatest timestamp given so far strictly exceeds it; when that
\* timestamp is less than or equal to the boundary it returns none and changes
\* nothing.
GreatestGiven == CHOOSE m \in DOMAIN given : \A t \in DOMAIN given : t <= m

C14_Original ==
    [][(variant = "max_time" /\ IsTryEmit(op') /\ is_some(emit_time) /\ DOMAIN given # {}
        /\ size > 0)
         => /\ is_some(ret') => GreatestGiven > unwrap(emit_time)
            /\ GreatestGiven <= unwrap(emit_time)
                  => (is_none(ret') /\ UNCHANGED policy_vars)]_vars

\* C14 (amended): the window.rs try_emit closes the current boundary exactly
\* when the greatest timestamp given so far is greater than or equal to it:
\* a record on the boundary closes the window below it.  When the greatest
\* timestamp is strictly less than the boundary it returns none and changes
\* nothing.
C14_DataDriven ==
    [][(variant = "max_time" /\ IsTryEmit(op') /\ is_some(emit_time) /\ DOMAIN given # {})
         => /\ is_some(ret') <=> GreatestGiven >= unwrap(emit_time)
            /\ is_some(ret') => unwrap(ret')[1] = unwrap(emit_time)
            /\ GreatestGiven < unwrap(emit_time)
                  => (is_none(ret') /\ UNCHANGED policy_vars /\ ~panicked')]_vars

\* a boundary was closed by a record given exactly on it, after a greater
\* timestamp had been followed by a smaller one
C14_Witness ==
    /\ variant = "max_time" /\ IsTryEmit(op) /\ is_some(ret)
    /\ DOMAIN given # {} /\ GreatestGiven = unwrap(ret)[1]
    /\ unwrap(ret)[2] # <<>>
    /\ size > 0

\* ------------------------------------------------------------------------
\* C15: after any sequence of give, give_vec, store, remove, try_emit and
\* drain calls, on a window built over a buffer that holds no empty entry,
\* every timestamp present in the buffer maps to at least one datum.
C15_BufferInvariant == size > 0 => \A t \in DOMAIN buffer : buffer[t] # <<>>

\* ------------------------------------------------------------------------
\* C16: every stash entry holds a non-empty batch, also at the moment its
\* notification fires and the entry is taken out of the stash and sent; an
\* entry is created only when a try_emit or drain result is stashed, has one
\* notification pending for its time, and is removed in the invocation in
\* which that notification fires.
C16_StashInvariant ==
    /\ [](\A t \in DOMAIN stash : stash[t] # <<>> /\ t \in notificator)
    /\ [][(op' = "window" /\ ~panicked' /\ size > 0)
            => /\ \A i \in 1..Len(NewlySent) : NewlySent[i][2] # <<>>
               /\ \A t \in DOMAIN stash' \ DOMAIN stash :
                     is_some(ret') /\ t = unwrap(ret')[1]
               /\ \A t \in DOMAIN stash :
                     IF t \in notificator'
                     THEN t \in DOMAIN stash' /\ \E f \in frontier : f <= t
                     ELSE t \notin DOMAIN stash'
                          /\ \E i \in 1..Len(NewlySent) : NewlySent[i][1] = t]_vars

\* ------------------------------------------------------------------------
\* C17: the driver's retained capability never moves back in time and is
\* never re-acquired once released; every result is stashed at a time
\* delayed() accepts (not earlier than the capability's time) while the
\* capability is still held; the capability is downgraded to the boundary of
\* each try_emit result and otherwise left alone; the invocation that observes
\* the empty frontier releases it.  No capability operation ever fails: the
\* only fault the driver can end in is the policy's own.
C17_CapabilityDiscipline ==
    /\ [](panicked => (variant = "max_time" /\ is_none(max_time) /\ is_some(emit_time)))
    /\ [][/\ (is_some(cap) /\ is_some(cap')) => unwrap(cap) <= unwrap(cap')
          /\ is_none(cap) => is_none(cap')
          /\ op' # "window" => cap' = cap
          /\ (op' = "window" /\ ~panicked')
               => /\ is_some(ret') => (is_some(cap) /\ unwrap(cap) <= unwrap(ret')[1])
                  /\ frontier = {} => is_none(cap')
                  /\ frontier # {}
                       => cap' = (IF is_some(ret') THEN Some(unwrap(ret')[1]) ELSE cap)]_vars

\* the invocation that observed the empty frontier stashed the drain result
\* with the capability, downgraded by an earlier try_emit, and released it
C17_Witness ==
    /\ op = "window" /\ is_none(cap) /\ is_some(ret) /\ is_some(closed)
    /\ unwrap(closed) > 0 /\ unwrap(ret)[1] > unwrap(closed)
    /\ sent # <<>> /\ sent[Len(sent)][1] = unwrap(ret)[1]

\* ------------------------------------------------------------------------
\* C18: the batches one operator instance sends downstream carry
\* non-decreasing output times in the order they are sent (strictly
\* increasing for a positive size), also when one invocation flushes several
\* stash entries and for the final drain batch.
C18_OutputOrder ==
    \A i, j \in 1..Len(sent) :
        i < j => /\ sent[i][1] <= sent[j][1]
                 /\ size > 0 => sent[i][1] < sent[j][1]

\* the run ended with the drain batch sent after two batches of closed
\* boundaries, each holding a record
C18_Witness ==
    /\ op = "window" /\ Finished /\ drain_when_finished /\ is_some(ret)
    /\ Len(sent) = 3
    /\ \A i \in 1..3 : sent[i][2] # <<>>
    /\ sent[3] = unwrap(ret)

\* ------------------------------------------------------------------------
\* C19: when boundary + size is beyond the greatest timestamp, the operation
\* that needs it ends in the fatal error state: construction with an initial
\* time, the first give, and the re-arming of a try_emit that closes a
\* boundary.  When it is representable the operation sets the boundary to it;
\* an operation never returns with the boundary unset or left as it was.
Overflows(t) == t > TimestampMax - size

C19_OverflowFatal ==
    /\ [](op = "new" =>
            IF is_none(init_time) THEN ~panicked /\ is_none(emit_time)
            ELSE IF Overflows(unwrap(init_time)) THEN panicked
            ELSE ~panicked /\ emit_time = Some(unwrap(init_time) + size))
    /\ [][/\ (op' = "give" /\ is_none(emit_time))
               => \A t \in DOMAIN given' :
                     IF Overflows(t) THEN panicked'
                     ELSE ~panicked' /\ emit_time' = Some(t + size)
          /\ (IsTryEmit(op') /\ is_some(emit_time) /\ ReadyFor(unwrap(emit_time)))
               => IF Overflows(unwrap(emit_time)) THEN panicked' /\ is_none(ret')
                  ELSE /\ ~panicked'
                       /\ is_some(ret') /\ unwrap(ret')[1] = unwrap(emit_time)
                       /\ emit_time' = Some(unwrap(emit_time) + size)
          /\ (is_some(emit_time) /\ ~panicked') => is_some(emit_time')]_vars

\* a try_emit of the watermark policy closed the last representable boundary
\* with records buffered and could not re-arm
C19_Witness ==
    /\ variant = "watermark" /\ IsTryEmit(op) /\ panicked
    /\ size > 0 /\ DOMAIN given # {}
    /\ is_some(closed)

\* ------------------------------------------------------------------------
\* C20: in the window.rs policy try_emit never faults in a state reached from
\* TumblingWindow::new(size, init_time) by give, try_emit and drain calls
\* (timestamps far from the end of the range, so that no sum overflows).
C20_TryEmitNeverFaults ==
    (variant = "max_time" /\ size > 0 /\ IsTryEmit(op)) => ~panicked

====
